---- MODULE Spec2Model ----
(***************************************************************************)
(* sharenv (server.py): a directory of variable files and an alias file    *)
(* served as shell export/alias statements, behind an in-memory cache      *)
(* guarded by one lock and invalidated by a file-system watcher.           *)
(*                                                                         *)
(* Strings are sequences of one-character strings.  Python's None is the   *)
(* empty tuple and a present value x is the one-element tuple <<x>>.        *)
(***************************************************************************)
EXTENDS Integers, Sequences, FiniteSets, TLC

\* ------------------------------------------------------------------ bounds
MaxTime == 1
MaxFsOps == 1
RaceFsOps == 3
ConcFsOps == 1
StaleFsOps == 2
MaxLen == 3

\* --------------------------------------------------------------- constants
CACHE_TTL == 1

None == <<>>
Some(x) == <<x>>

Threads == {"t1", "t2"}
\* The request threads that run in the sequential specifications.
Workers == {"t1"}
Free == "free"

\* Variable file names: "A" and "A.t" (a name with an extension).
NameA == <<"A">>
NameAt == <<"A", ".", "t">>
VarNames == {NameA, NameAt}

\* Raw file contents: sequences of raw lines.
Blank == << <<" ">>, <<>> >>
One == << <<" ", "a", " ">> >>
Two == << <<"b">>, <<>>, <<"c", " ">> >>
Contents == {Blank, One, Two}

\* Raw alias file contents.
AliasOne == << <<"l", "=", "x">> >>
AliasTwo == << <<"a", "l", "i", "a", "s", " ", "g", "=", "'", "y", "'">>, <<" ">>, <<"n">> >>
AliasContents == {AliasOne, AliasTwo}

SECRET_TOKEN == "secret"
Tokens == {SECRET_TOKEN, "wrong"}

\* ----------------------------------------------------------------- strings
RECURSIVE LStrip(_)
LStrip(s) ==
  IF s # <<>> /\ Head(s) = " " THEN LStrip(Tail(s)) ELSE s

RECURSIVE RStrip(_)
RStrip(s) ==
  IF s # <<>> /\ s[Len(s)] = " " THEN RStrip(SubSeq(s, 1, Len(s) - 1)) ELSE s

\* str.strip()
Strip(s) == RStrip(LStrip(s))

\* [line.strip() for line in f.readlines() if line.strip()]
RECURSIVE StripLines(_)
StripLines(ls) ==
  IF ls = <<>> THEN <<>>
  ELSE IF Strip(Head(ls)) # <<>> THEN <<Strip(Head(ls))>> \o StripLines(Tail(ls))
  ELSE StripLines(Tail(ls))

\* Code points of the characters of file names.
Ord(c) ==
  CASE c = "." -> 46
    [] c = "A" -> 65
    [] c = "t" -> 116

\* Python's str < str.
RECURSIVE StrLess(_, _)
StrLess(a, b) ==
  IF b = <<>> THEN FALSE
  ELSE IF a = <<>> THEN TRUE
  ELSE IF Head(a) = Head(b) THEN StrLess(Tail(a), Tail(b))
  ELSE Ord(Head(a)) < Ord(Head(b))

\* pathlib's PurePath.stem: the name without its last suffix.
LastDot(n) ==
  LET dots == {i \in 1..Len(n) : n[i] = "."}
  IN IF dots = {} THEN 0 ELSE CHOOSE i \in dots : \A j \in dots : j <= i

Stem(n) ==
  LET i == LastDot(n)
  IN IF i > 1 /\ i < Len(n) THEN SubSeq(n, 1, i - 1) ELSE n

StartsWith(s, p) ==
  Len(s) >= Len(p) /\ SubSeq(s, 1, Len(p)) = p

\* The index of the first occurrence of character c in s, 0 when there is none.
Find(s, c) ==
  LET hits == {i \in 1..Len(s) : s[i] = c}
  IN IF hits = {} THEN 0 ELSE CHOOSE i \in hits : \A j \in hits : i <= j

\* str.replace(c, r) for a one-character pattern c.
RECURSIVE Replace(_, _, _)
Replace(s, c, r) ==
  IF s = <<>> THEN <<>>
  ELSE (IF Head(s) = c THEN r ELSE <<Head(s)>>) \o Replace(Tail(s), c, r)

\* ------------------------------------------------------------ file system
\* Paths the watcher reports: <<"vars", name>> and <<"aliases">>.
VarPath(n) == <<"vars", n>>
AliasPath == <<"aliases">>

\* get_file_hash: the digest of the bytes, None when the file cannot be opened.
\* MD5 is modelled as injective.
get_file_hash(f) ==
  IF f = None THEN None ELSE <<"md5", f[1]>>

\* read_var_file: the non-empty stripped lines, None for a missing file or no line.
read_var_file(f) ==
  IF f = None THEN None
  ELSE LET lines == StripLines(f[1])
       IN IF lines # <<>> THEN Some(lines) ELSE None

\* ------------------------------------------------------------------- state
VARIABLES
  files,             \* the variables directory: name -> None or Some(content)
  alias_file,        \* the alias file: None or Some(content)
  fsops,             \* number of external file-system operations so far
  now,               \* time.time()
  events,            \* paths with a pending on_modified event
  values_cache,      \* _values_cache
  file_hashes,       \* _file_hashes
  cache_timestamps,  \* _cache_timestamps
  aliases_cache,     \* _aliases_cache
  aliases_hash,      \* _aliases_hash
  cache_lock,        \* holder of _cache_lock, or Free
  pc,                \* position of each request thread
  token,             \* get_env_vars' token
  var_name,          \* get_var_value's argument
  current_time,      \* get_var_value's current_time
  current_hash,      \* get_var_value's / load_aliases' current_hash
  values,            \* get_var_value's values
  pending,           \* load_all_vars: names still to iterate
  vars_dict,         \* load_all_vars' vars_dict, in insertion order
  aliases,           \* get_env_vars' aliases
  response,          \* the response a thread is sending, None otherwise
  path,              \* history: how the thread's last get_var_value ended, "blocked"
                     \* while its get has had to wait for the lock
  notified,          \* history: per name, "edited" after an in-place edit, "done" once
                     \* its on_modified has run; dropped by any later change or get
  refreshed,         \* history: what the last refresh of a name stored
  captured,          \* history: time.time() when the stored list of a name was read
  esc_in,            \* the value handed to the export escaping
  esc_out,           \* its escaped form, None until computed
  line_in,           \* a raw line of the alias file
  line_out,          \* the alias commands made of it, None until computed
  line_again         \* the alias commands made of line_out, None until computed

vars == <<files, alias_file, fsops, now, events, values_cache, file_hashes,
          cache_timestamps, aliases_cache, aliases_hash, cache_lock, pc,
          token, var_name, current_time, current_hash, values, pending, vars_dict,
          aliases, response, path, notified, refreshed, captured, esc_in, esc_out,
          line_in, line_out, line_again>>

fsVars == <<files, alias_file, fsops, events>>
cacheVars == <<values_cache, file_hashes, cache_timestamps>>
aliasCacheVars == <<aliases_cache, aliases_hash>>
getVars == <<var_name, current_time, current_hash, values>>
aliasLineVars == <<line_in, line_out, line_again>>
escVars == <<esc_in, esc_out, aliasLineVars>>

EmptyMap == [n \in {} |-> None]
Put(m, k, v) == [x \in DOMAIN m \cup {k} |-> IF x = k THEN v ELSE m[x]]
Del(m, k) == [x \in DOMAIN m \ {k} |-> m[x]]
Elems(s) == {s[i] : i \in 1..Len(s)}

\* The module-level state of server.py after import (lines 49-54), no request
\* in progress; each variable file and the alias file may exist already.
InitServer ==
  /\ files \in [VarNames -> {None, Some(Two)}]
  /\ alias_file \in {None, Some(AliasTwo)}
  /\ fsops = 0
  /\ now = 0
  /\ events = {}
  /\ values_cache = EmptyMap
  /\ file_hashes = EmptyMap
  /\ cache_timestamps = EmptyMap
  /\ aliases_cache = None
  /\ aliases_hash = None
  /\ cache_lock = Free
  /\ pc = [t \in Threads |-> "idle"]
  /\ token = [t \in Threads |-> SECRET_TOKEN]
  /\ var_name = [t \in Threads |-> NameA]
  /\ current_time = [t \in Threads |-> 0]
  /\ current_hash = [t \in Threads |-> None]
  /\ values = [t \in Threads |-> None]
  /\ pending = [t \in Threads |-> {}]
  /\ vars_dict = [t \in Threads |-> <<>>]
  /\ aliases = [t \in Threads |-> <<>>]
  /\ response = [t \in Threads |-> None]
  /\ path = [t \in Threads |-> "-"]
  /\ notified = EmptyMap
  /\ refreshed = EmptyMap
  /\ captured = EmptyMap

\* No line is being formatted.
InitLine ==
  /\ line_in = <<>>
  /\ line_out = None
  /\ line_again = None

Init ==
  /\ InitServer
  /\ esc_in = <<>>
  /\ esc_out = None
  /\ InitLine

threadVars == <<pc, token, var_name, current_time, current_hash, values, pending,
                vars_dict, aliases, response, path>>
memVars == <<values_cache, file_hashes, cache_timestamps, aliases_cache,
             aliases_hash, cache_lock, refreshed, captured>>

\* ------------------------------------------------------ the world outside
\* time.time() advances.
Tick ==
  /\ now < MaxTime
  /\ now' = now + 1
  /\ UNCHANGED <<fsVars, memVars, threadVars, notified, escVars>>

\* An external writer rewrites an existing variable file in place: the
\* observer queues a modified event for its path.
EditFile(n, c, max) ==
  /\ fsops < max
  /\ files[n] # None
  /\ files[n] # Some(c)
  /\ files' = [files EXCEPT ![n] = Some(c)]
  /\ events' = events \cup {VarPath(n)}
  /\ fsops' = fsops + 1
  /\ notified' = Put(notified, n, "edited")
  /\ UNCHANGED <<alias_file, now, memVars, threadVars, escVars>>

\* A file is moved into the directory: a created/moved event, for which
\* VarsFileHandler overrides no callback.
CreateFile(n, c, max) ==
  /\ fsops < max
  /\ files[n] = None
  /\ files' = [files EXCEPT ![n] = Some(c)]
  /\ fsops' = fsops + 1
  /\ notified' = Del(notified, n)
  /\ UNCHANGED <<alias_file, events, now, memVars, threadVars, escVars>>

\* A file is removed: a deleted event, for which VarsFileHandler overrides
\* no callback.
DeleteFile(n, max) ==
  /\ fsops < max
  /\ files[n] # None
  /\ files' = [files EXCEPT ![n] = None]
  /\ fsops' = fsops + 1
  /\ notified' = Del(notified, n)
  /\ UNCHANGED <<alias_file, events, now, memVars, threadVars, escVars>>

\* The alias file is rewritten in place, moved into place, or removed.
EditAlias(c, max) ==
  /\ fsops < max
  /\ alias_file # None
  /\ alias_file # Some(c)
  /\ alias_file' = Some(c)
  /\ events' = events \cup {AliasPath}
  /\ fsops' = fsops + 1
  /\ UNCHANGED <<files, now, memVars, threadVars, notified, escVars>>

CreateAlias(c, max) ==
  /\ fsops < max
  /\ alias_file = None
  /\ alias_file' = Some(c)
  /\ fsops' = fsops + 1
  /\ UNCHANGED <<files, events, now, memVars, threadVars, notified, escVars>>

DeleteAlias(max) ==
  /\ fsops < max
  /\ alias_file # None
  /\ alias_file' = None
  /\ fsops' = fsops + 1
  /\ UNCHANGED <<files, events, now, memVars, threadVars, notified, escVars>>

\* ------------------------------------------------------------ the watcher
\* VarsFileHandler.on_modified (lines 60-79) for event path p: under the
\* variables directory the entry of the path's stem is deleted; for the alias
\* file the alias cache is cleared.  The callback takes the lock, so it runs
\* only when the lock is free.
on_modified_var_name(p) == Stem(p[2])

\* A faulty variant: the callback deletes the values and leaves the hash.
OnModifiedKeepHash(p) ==
  /\ p \in events
  /\ cache_lock = Free
  /\ events' = events \ {p}
  /\ IF p[1] = "vars"
       THEN /\ values_cache' = Del(values_cache, on_modified_var_name(p))
            /\ refreshed' = Del(refreshed, on_modified_var_name(p))
            /\ captured' = Del(captured, on_modified_var_name(p))
            /\ notified' = IF p[2] \in DOMAIN notified
                             THEN Put(notified, p[2], "done") ELSE notified
            /\ UNCHANGED <<file_hashes, aliasCacheVars>>
       ELSE /\ p = AliasPath
            /\ aliases_cache' = None
            /\ aliases_hash' = None
            /\ UNCHANGED <<values_cache, file_hashes, refreshed, captured, notified>>
  /\ UNCHANGED <<files, alias_file, fsops, now, cache_timestamps, cache_lock,
                 threadVars, escVars>>

OnModified(p) ==
  /\ p \in events
  /\ cache_lock = Free
  /\ events' = events \ {p}
  /\ IF p[1] = "vars"
       THEN /\ values_cache' = Del(values_cache, on_modified_var_name(p))
            /\ file_hashes' = Del(file_hashes, on_modified_var_name(p))
            /\ refreshed' = Del(refreshed, on_modified_var_name(p))
            /\ captured' = Del(captured, on_modified_var_name(p))
            /\ notified' = IF p[2] \in DOMAIN notified
                             THEN Put(notified, p[2], "done") ELSE notified
            /\ UNCHANGED aliasCacheVars
       ELSE /\ p = AliasPath
            /\ aliases_cache' = None
            /\ aliases_hash' = None
            /\ UNCHANGED <<values_cache, file_hashes, refreshed, captured, notified>>
  /\ UNCHANGED <<files, alias_file, fsops, now, cache_timestamps, cache_lock,
                 threadVars, escVars>>

\* ---------------------------------------------------------- get_var_value
\* The test of lines 115-118 on name n, hash h and call time t: a cache entry
\* that may be used without reading the file.
\* A faulty variant: the same test without the age check.
CacheValidNoTtl(n, h, t) ==
  /\ n \in DOMAIN values_cache
  /\ n \in DOMAIN file_hashes
  /\ file_hashes[n] = h

CacheValid(n, h, t) ==
  /\ n \in DOMAIN values_cache
  /\ n \in DOMAIN file_hashes
  /\ file_hashes[n] = h
  /\ t - (IF n \in DOMAIN cache_timestamps THEN cache_timestamps[n] ELSE 0) < CACHE_TTL

\* Thread t takes the lock (lines 110, 171): the threads that have sampled
\* the clock and stand at "with _cache_lock" of get_var_value now have to wait.
Blocked(t) ==
  [u \in Threads |-> IF u # t /\ pc[u] = "wait" THEN "blocked" ELSE path[u]]

\* The get of name n has returned: it was the next get after a notification.
Seen(n) ==
  IF n \in DOMAIN notified /\ notified[n] = "done" THEN Del(notified, n) ELSE notified

\* load_all_vars' loop (lines 154-157) reaches a name that is a file, and
\* get_var_value samples the clock (line 108).
GetBegin(t, n) ==
  /\ pc[t] = "vars"
  /\ n \in pending[t]
  /\ files[n] # None
  /\ pending' = [pending EXCEPT ![t] = @ \ {n}]
  /\ var_name' = [var_name EXCEPT ![t] = n]
  /\ current_time' = [current_time EXCEPT ![t] = now]
  /\ pc' = [pc EXCEPT ![t] = "wait"]
  /\ path' = [path EXCEPT ![t] = IF cache_lock = Free THEN "-" ELSE "blocked"]
  /\ UNCHANGED <<token, fsVars, now, memVars, current_hash, values, vars_dict, aliases,
                 response, notified, escVars>>

\* The loop reaches a name that is no longer a file (line 155).
SkipName(t, n) ==
  /\ pc[t] = "vars"
  /\ n \in pending[t]
  /\ files[n] = None
  /\ pending' = [pending EXCEPT ![t] = @ \ {n}]
  /\ path' = [path EXCEPT ![t] = "-"]
  /\ UNCHANGED <<token, fsVars, now, memVars, pc, getVars, vars_dict, aliases, response,
                 notified, escVars>>

\* A faulty variant: the first line is always selected.
selected_first(vals) == {vals[1]}

\* Lines 139-142: the values the selection can give: random.choice of a list
\* of several, the only element otherwise.
selected_value(vals) ==
  IF Len(vals) > 1 THEN Elems(vals) ELSE {vals[1]}

\* Lines 110-120 and 138-144: take the lock, hash the file; the entry is
\* valid, so select from the cached list, release and return.
GetHit(t) ==
  LET n == var_name[t]
      h == get_file_hash(files[n])
  IN /\ pc[t] = "wait"
     /\ cache_lock = Free
     /\ CacheValid(n, h, current_time[t])
     /\ \E v \in selected_value(values_cache[n]) :
          vars_dict' = [vars_dict EXCEPT ![t] = Append(@, <<n, v>>)]
     /\ path' = [path EXCEPT ![t] = "hit"]
     /\ pc' = [pc EXCEPT ![t] = "vars"]
     /\ notified' = Seen(n)
     /\ var_name' = [var_name EXCEPT ![t] = NameA]
     /\ current_time' = [current_time EXCEPT ![t] = 0]
     /\ UNCHANGED <<token, fsVars, now, memVars, current_hash, values, pending, aliases, response,
                    escVars>>

\* A faulty variant: the same step taken without waiting for the lock.
GetMissNoLock(t) ==
  LET n == var_name[t]
      h == get_file_hash(files[n])
  IN /\ pc[t] = "wait"
     /\ ~CacheValid(n, h, current_time[t])
     /\ cache_lock' = t
     /\ current_hash' = [current_hash EXCEPT ![t] = h]
     /\ pc' = [pc EXCEPT ![t] = "read"]
     /\ path' = Blocked(t)
     /\ UNCHANGED <<token, fsVars, now, values_cache, file_hashes, cache_timestamps,
                    aliasCacheVars, refreshed, captured, var_name, current_time, values,
                    pending, vars_dict, aliases, response, notified,
                    escVars>>

\* Lines 110-118: take the lock, hash the file; no valid entry, so the file
\* will be read.
GetMiss(t) ==
  LET n == var_name[t]
      h == get_file_hash(files[n])
  IN /\ pc[t] = "wait"
     /\ cache_lock = Free
     /\ ~CacheValid(n, h, current_time[t])
     /\ cache_lock' = t
     /\ current_hash' = [current_hash EXCEPT ![t] = h]
     /\ pc' = [pc EXCEPT ![t] = "read"]
     /\ path' = Blocked(t)
     /\ UNCHANGED <<token, fsVars, now, values_cache, file_hashes, cache_timestamps,
                    aliasCacheVars, refreshed, captured, var_name, current_time, values,
                    pending, vars_dict, aliases, response, notified,
                    escVars>>

\* A faulty variant: the early return leaves the lock held.
GetReadNoneKeepLock(t) ==
  /\ pc[t] = "read"
  /\ read_var_file(files[var_name[t]]) = None
  /\ current_hash' = [current_hash EXCEPT ![t] = None]
  /\ path' = [path EXCEPT ![t] = "absent"]
  /\ pc' = [pc EXCEPT ![t] = "vars"]
  /\ notified' = Seen(var_name[t])
  /\ var_name' = [var_name EXCEPT ![t] = NameA]
  /\ current_time' = [current_time EXCEPT ![t] = 0]
  /\ UNCHANGED <<token, fsVars, now, values_cache, file_hashes, cache_timestamps,
                 aliasCacheVars, cache_lock, refreshed, captured, values,
                 pending, vars_dict, aliases, response, escVars>>

\* Lines 123-125 / 131-133: read_var_file yields None; return None, which
\* releases the lock.
GetReadNone(t) ==
  /\ pc[t] = "read"
  /\ read_var_file(files[var_name[t]]) = None
  /\ cache_lock' = Free
  /\ current_hash' = [current_hash EXCEPT ![t] = None]
  /\ path' = [path EXCEPT ![t] = "absent"]
  /\ pc' = [pc EXCEPT ![t] = "vars"]
  /\ notified' = Seen(var_name[t])
  /\ var_name' = [var_name EXCEPT ![t] = NameA]
  /\ current_time' = [current_time EXCEPT ![t] = 0]
  /\ UNCHANGED <<token, fsVars, now, values_cache, file_hashes, cache_timestamps,
                 aliasCacheVars, refreshed, captured, values,
                 pending, vars_dict, aliases, response, escVars>>

\* Lines 123-126 / 131-134: read_var_file yields a list, stored in
\* _values_cache.
GetReadSome(t) ==
  LET r == read_var_file(files[var_name[t]])
  IN /\ pc[t] = "read"
     /\ r # None
     /\ values' = [values EXCEPT ![t] = r]
     /\ values_cache' = Put(values_cache, var_name[t], r[1])
     /\ captured' = Put(captured, var_name[t], now)
     /\ pc' = [pc EXCEPT ![t] = "store"]
     /\ UNCHANGED <<token, fsVars, now, file_hashes, cache_timestamps, aliasCacheVars,
                    cache_lock, refreshed, var_name, current_time, current_hash,
                    pending, vars_dict, aliases, response, path, notified,
                    escVars>>

\* Lines 127-128 / 135-136 and 138-144: store hash and timestamp, select,
\* release the lock and return.
GetStore(t) ==
  LET n == var_name[t]
  IN /\ pc[t] = "store"
     /\ file_hashes' = Put(file_hashes, n, current_hash[t])
     /\ cache_timestamps' = Put(cache_timestamps, n, current_time[t])
     /\ refreshed' = Put(refreshed, n, <<values[t][1], current_hash[t], current_time[t]>>)
     /\ UNCHANGED captured
     /\ \E v \in selected_value(values[t][1]) :
          vars_dict' = [vars_dict EXCEPT ![t] = Append(@, <<n, v>>)]
     /\ cache_lock' = Free
     /\ values' = [values EXCEPT ![t] = None]
     /\ current_hash' = [current_hash EXCEPT ![t] = None]
     /\ path' = [path EXCEPT ![t] = "refresh"]
     /\ pc' = [pc EXCEPT ![t] = "vars"]
     /\ notified' = Seen(n)
     /\ var_name' = [var_name EXCEPT ![t] = NameA]
     /\ current_time' = [current_time EXCEPT ![t] = 0]
     /\ UNCHANGED <<token, fsVars, now, values_cache, aliasCacheVars, pending, aliases, response, escVars>>

\* load_all_vars returns (line 161).
VarsDone(t) ==
  /\ pc[t] = "vars"
  /\ pending[t] = {}
  /\ pc' = [pc EXCEPT ![t] = "aliases"]
  /\ path' = [path EXCEPT ![t] = "-"]
  /\ UNCHANGED <<token, fsVars, now, memVars, getVars, pending, vars_dict, aliases,
                 response, notified, escVars>>

\* ----------------------------------------------------------- load_aliases
AliasKw == <<"a", "l", "i", "a", "s", " ">>
EndsWith(s, p) ==
  Len(s) >= Len(p) /\ SubSeq(s, Len(s) - Len(p) + 1, Len(s)) = p

\* A faulty variant: a line that is already a command is formatted anew.
format_alias_no_keyword(line) ==
  IF Find(line, "=") > 0
    THEN LET i == Find(line, "=")
             alias_name == Strip(SubSeq(line, 1, i - 1))
             alias_value == Strip(SubSeq(line, i + 1, Len(line)))
         IN IF \/ StartsWith(alias_value, <<"'">>) /\ EndsWith(alias_value, <<"'">>)
               \/ StartsWith(alias_value, <<"\"">>) /\ EndsWith(alias_value, <<"\"">>)
              THEN AliasKw \o alias_name \o <<"=">> \o alias_value
              ELSE AliasKw \o alias_name \o <<"=", "'">> \o alias_value \o <<"'">>
    ELSE AliasKw \o Strip(line)

\* Lines 185-206: one stripped, non-empty line as an alias command.
format_alias(line) ==
  IF StartsWith(line, AliasKw) THEN line
  ELSE IF Find(line, "=") > 0
    THEN LET i == Find(line, "=")
             alias_name == Strip(SubSeq(line, 1, i - 1))
             alias_value == Strip(SubSeq(line, i + 1, Len(line)))
         IN IF \/ StartsWith(alias_value, <<"'">>) /\ EndsWith(alias_value, <<"'">>)
               \/ StartsWith(alias_value, <<"\"">>) /\ EndsWith(alias_value, <<"\"">>)
              THEN AliasKw \o alias_name \o <<"=">> \o alias_value
              ELSE AliasKw \o alias_name \o <<"=", "'">> \o alias_value \o <<"'">>
    ELSE AliasKw \o Strip(line)

\* Lines 179-206: the alias commands of a file's content.
format_aliases(content) ==
  LET lines == StripLines(content)
  IN [i \in 1..Len(lines) |-> format_alias(lines[i])]

\* Line 174: the alias cache may be used for hash h.
AliasCacheValid(h) ==
  aliases_cache # None /\ aliases_hash = h

\* Lines 168-169: the alias file does not exist: the empty list.
AliasesAbsent(t) ==
  /\ pc[t] = "aliases"
  /\ alias_file = None
  /\ aliases' = [aliases EXCEPT ![t] = <<>>]
  /\ pc' = [pc EXCEPT ![t] = "respond"]
  /\ UNCHANGED <<token, fsVars, now, memVars, getVars, pending, vars_dict, response,
                 path, notified, escVars>>

\* Line 168: the alias file exists; go on to take the lock.
AliasesExist(t) ==
  /\ pc[t] = "aliases"
  /\ alias_file # None
  /\ pc' = [pc EXCEPT ![t] = "awaitA"]
  /\ UNCHANGED <<token, fsVars, now, memVars, getVars, pending, vars_dict, aliases,
                 response, path, notified, escVars>>

\* Lines 171-175: take the lock, hash the alias file; the cache is valid:
\* return it.
AliasHit(t) ==
  /\ pc[t] = "awaitA"
  /\ cache_lock = Free
  /\ AliasCacheValid(get_file_hash(alias_file))
  /\ aliases' = [aliases EXCEPT ![t] = aliases_cache[1]]
  /\ pc' = [pc EXCEPT ![t] = "respond"]
  /\ UNCHANGED <<token, fsVars, now, memVars, getVars, pending, vars_dict, response,
                 path, notified, escVars>>

\* Lines 171-174: take the lock, hash the alias file; the cache is not valid.
AliasMiss(t) ==
  /\ pc[t] = "awaitA"
  /\ cache_lock = Free
  /\ ~AliasCacheValid(get_file_hash(alias_file))
  /\ cache_lock' = t
  /\ current_hash' = [current_hash EXCEPT ![t] = get_file_hash(alias_file)]
  /\ pc' = [pc EXCEPT ![t] = "aread"]
  /\ path' = Blocked(t)
  /\ UNCHANGED <<token, fsVars, now, values_cache, file_hashes, cache_timestamps,
                 aliasCacheVars, refreshed, captured, var_name, current_time, values,
                 pending, vars_dict, aliases, response, notified, escVars>>

\* Lines 178-179 and 213-215: open() raises; the empty list is returned and
\* the lock released.
AliasReadFail(t) ==
  /\ pc[t] = "aread"
  /\ alias_file = None
  /\ aliases' = [aliases EXCEPT ![t] = <<>>]
  /\ cache_lock' = Free
  /\ current_hash' = [current_hash EXCEPT ![t] = None]
  /\ pc' = [pc EXCEPT ![t] = "respond"]
  /\ UNCHANGED <<token, fsVars, now, values_cache, file_hashes, cache_timestamps,
                 aliasCacheVars, refreshed, captured, var_name, current_time, values,
                 pending, vars_dict, response, path, notified, escVars>>

\* Lines 178-212: read and format the alias file, update the cache, return
\* the list and release the lock.
AliasRead(t) ==
  /\ pc[t] = "aread"
  /\ alias_file # None
  /\ aliases_cache' = Some(format_aliases(alias_file[1]))
  /\ aliases_hash' = current_hash[t]
  /\ aliases' = [aliases EXCEPT ![t] = format_aliases(alias_file[1])]
  /\ cache_lock' = Free
  /\ current_hash' = [current_hash EXCEPT ![t] = None]
  /\ pc' = [pc EXCEPT ![t] = "respond"]
  /\ UNCHANGED <<token, fsVars, now, values_cache, file_hashes, cache_timestamps,
                 refreshed, captured, var_name, current_time, values, pending, vars_dict,
                 response, path, notified, escVars>>

\* ----------------------------------------------------------- get_env_vars
\* A faulty variant: every token passes.
validate_token_any(tok) == TRUE

\* validate_token (lines 232-237).
validate_token(tok) == tok = SECRET_TOKEN

\* Line 388: the body sent for an invalid token.
warning_message ==
  <<"e", "c", "h", "o", " ", "\"",
    "Warning: Invalid sharenv key. Please check your SHARENV_ENDPOINT configuration.",
    "\"">>

\* A faulty variant: the double quote is replaced before the backslash.
escape_value_quote_first(value) ==
  Replace(Replace(Replace(value, "\"", <<"\\", "\"">>), "\\", <<"\\", "\\">>),
          "$", <<"\\", "$">>)

\* Line 398: backslash, then double quote, then dollar sign.
escape_value(value) ==
  Replace(Replace(Replace(value, "\\", <<"\\", "\\">>), "\"", <<"\\", "\"">>),
          "$", <<"\\", "$">>)

\* Line 399.
ExportKw == <<"e", "x", "p", "o", "r", "t", " ">>
export_command(name, value) ==
  ExportKw \o name \o <<"=", "\"">> \o escape_value(value) \o <<"\"">>

\* sorted(vars_dict.items()) of line 396: the names of a dict are distinct,
\* so the pairs are ordered by name.
RECURSIVE Insert(_, _)
Insert(item, s) ==
  IF s = <<>> THEN <<item>>
  ELSE IF StrLess(item[1], Head(s)[1]) THEN <<item>> \o s
  ELSE <<Head(s)>> \o Insert(item, Tail(s))

\* A faulty variant: the pairs are left in insertion order.
unsorted(items) == items

RECURSIVE sorted(_)
sorted(items) ==
  IF items = <<>> THEN <<>> ELSE Insert(Head(items), sorted(Tail(items)))

\* Lines 395-406: the lines of the body, which '\n'.join puts together.
response_lines(items, als) ==
  LET ordered == sorted(items)
  IN [i \in 1..Len(ordered) |-> export_command(ordered[i][1], ordered[i][2])] \o als

\* GET /<token>, lines 386-391: an invalid token is answered at once with the
\* warning; a valid one starts load_all_vars, which lists the directory.
Request(t, tok) ==
  /\ pc[t] = "idle"
  /\ token' = [token EXCEPT ![t] = tok]
  /\ IF validate_token(tok)
       THEN /\ pending' = [pending EXCEPT ![t] = {n \in VarNames : files[n] # None}]
            /\ pc' = [pc EXCEPT ![t] = "vars"]
            /\ UNCHANGED response
       ELSE /\ response' = [response EXCEPT ![t] =
                             Some([token |-> tok, status |-> 200,
                                   body |-> <<warning_message>>])]
            /\ pc' = [pc EXCEPT ![t] = "sent"]
            /\ UNCHANGED pending
  /\ UNCHANGED <<fsVars, now, memVars, getVars, vars_dict, aliases, path,
                 notified, escVars>>

\* Lines 394-417: the response of a valid request.
Respond(t) ==
  /\ pc[t] = "respond"
  /\ response' = [response EXCEPT ![t] =
                   Some([token |-> token[t], status |-> 200,
                         body |-> response_lines(vars_dict[t], aliases[t])])]
  /\ pc' = [pc EXCEPT ![t] = "sent"]
  /\ UNCHANGED <<token, fsVars, now, memVars, getVars, pending, vars_dict, aliases,
                 path, notified, escVars>>

\* The response has gone to the client; the thread serves the next request.
Finish(t) ==
  /\ pc[t] = "sent"
  /\ response' = [response EXCEPT ![t] = None]
  /\ vars_dict' = [vars_dict EXCEPT ![t] = <<>>]
  /\ aliases' = [aliases EXCEPT ![t] = <<>>]
  /\ pc' = [pc EXCEPT ![t] = "idle"]
  /\ token' = [token EXCEPT ![t] = SECRET_TOKEN]
  /\ UNCHANGED <<fsVars, now, memVars, getVars, pending, path, notified,
                 escVars>>

\* ------------------------------------------------------- specifications
ServerNext(T, max) ==
  \/ Tick
  \/ \E n \in VarNames, c \in Contents : EditFile(n, c, max)
  \/ \E n \in VarNames, c \in Contents : CreateFile(n, c, max)
  \/ \E n \in VarNames : DeleteFile(n, max)
  \/ \E c \in AliasContents : EditAlias(c, max)
  \/ \E c \in AliasContents : CreateAlias(c, max)
  \/ DeleteAlias(max)
  \/ \E p \in events : OnModified(p)
  \/ \E t \in T, tok \in Tokens : Request(t, tok)
  \/ \E t \in T, n \in VarNames : GetBegin(t, n)
  \/ \E t \in T, n \in VarNames : SkipName(t, n)
  \/ \E t \in T : GetHit(t)
  \/ \E t \in T : GetMiss(t)
  \/ \E t \in T : GetReadNone(t)
  \/ \E t \in T : GetReadSome(t)
  \/ \E t \in T : GetStore(t)
  \/ \E t \in T : VarsDone(t)
  \/ \E t \in T : AliasesAbsent(t)
  \/ \E t \in T : AliasesExist(t)
  \/ \E t \in T : AliasHit(t)
  \/ \E t \in T : AliasMiss(t)
  \/ \E t \in T : AliasReadFail(t)
  \/ \E t \in T : AliasRead(t)
  \/ \E t \in T : Respond(t)
  \/ \E t \in T : Finish(t)

\* One request thread, the watcher, the clock and an external writer.
Next == ServerNext(Workers, MaxFsOps)

Spec == Init /\ [][Next]_vars

\* One request thread, the watcher and an external writer of the variable
\* files that acts up to RaceFsOps times, also in the middle of a get; the
\* clock stands still and the alias file is left alone.
RaceNext ==
  \/ \E n \in VarNames, c \in Contents : EditFile(n, c, RaceFsOps)
  \/ \E n \in VarNames, c \in Contents : CreateFile(n, c, RaceFsOps)
  \/ \E n \in VarNames : DeleteFile(n, RaceFsOps)
  \/ \E p \in events : OnModified(p)
  \/ \E t \in Workers, tok \in Tokens : Request(t, tok)
  \/ \E t \in Workers, n \in VarNames : GetBegin(t, n)
  \/ \E t \in Workers, n \in VarNames : SkipName(t, n)
  \/ \E t \in Workers : GetHit(t)
  \/ \E t \in Workers : GetMiss(t)
  \/ \E t \in Workers : GetReadNone(t)
  \/ \E t \in Workers : GetReadSome(t)
  \/ \E t \in Workers : GetStore(t)
  \/ \E t \in Workers : VarsDone(t)
  \/ \E t \in Workers : AliasesAbsent(t)
  \/ \E t \in Workers : AliasesExist(t)
  \/ \E t \in Workers : AliasHit(t)
  \/ \E t \in Workers : AliasMiss(t)
  \/ \E t \in Workers : AliasRead(t)
  \/ \E t \in Workers : Respond(t)
  \/ \E t \in Workers : Finish(t)

SpecRace == Init /\ [][RaceNext]_vars

\* Two request threads and the watcher contend for the lock while an external
\* writer edits variable files in place up to ConcFsOps times and the clock
\* runs.
ConcNext ==
  \/ Tick
  \/ \E n \in VarNames, c \in Contents : EditFile(n, c, ConcFsOps)
  \/ \E p \in events : OnModified(p)
  \/ \E t \in Threads, tok \in Tokens : Request(t, tok)
  \/ \E t \in Threads, n \in VarNames : GetBegin(t, n)
  \/ \E t \in Threads : GetHit(t)
  \/ \E t \in Threads : GetMiss(t)
  \/ \E t \in Threads : GetReadNone(t)
  \/ \E t \in Threads : GetReadSome(t)
  \/ \E t \in Threads : GetStore(t)
  \/ \E t \in Threads : VarsDone(t)
  \/ \E t \in Threads : AliasesAbsent(t)
  \/ \E t \in Threads : AliasesExist(t)
  \/ \E t \in Threads : AliasHit(t)
  \/ \E t \in Threads : AliasMiss(t)
  \/ \E t \in Threads : AliasRead(t)
  \/ \E t \in Threads : Respond(t)
  \/ \E t \in Threads : Finish(t)

\* The directory holds the one file "A" when the threads start.
InitConc ==
  /\ Init
  /\ files[NameA] # None
  /\ files[NameAt] = None

SpecConc == InitConc /\ [][ConcNext]_vars

\* One request thread, the watcher and an external writer of the alias file
\* that acts up to RaceFsOps times, also in the middle of a load_aliases; the
\* variables directory is empty and the clock stands still.
AliasRaceNext ==
  \/ \E c \in AliasContents : EditAlias(c, RaceFsOps)
  \/ \E c \in AliasContents : CreateAlias(c, RaceFsOps)
  \/ DeleteAlias(RaceFsOps)
  \/ \E p \in events : OnModified(p)
  \/ \E t \in Workers, tok \in Tokens : Request(t, tok)
  \/ \E t \in Workers : VarsDone(t)
  \/ \E t \in Workers : AliasesAbsent(t)
  \/ \E t \in Workers : AliasesExist(t)
  \/ \E t \in Workers : AliasHit(t)
  \/ \E t \in Workers : AliasMiss(t)
  \/ \E t \in Workers : AliasReadFail(t)
  \/ \E t \in Workers : AliasRead(t)
  \/ \E t \in Workers : Respond(t)
  \/ \E t \in Workers : Finish(t)

InitAliasRace ==
  /\ Init
  /\ files = [n \in VarNames |-> None]

SpecAliasRace == InitAliasRace /\ [][AliasRaceNext]_vars

\* One request thread, the watcher, the clock and an external writer that
\* edits the one variable file "A" in place up to StaleFsOps times, also in
\* the middle of a get; there is no alias file.
StaleNext ==
  \/ Tick
  \/ \E n \in VarNames, c \in Contents : EditFile(n, c, StaleFsOps)
  \/ \E p \in events : OnModified(p)
  \/ \E t \in Workers, tok \in Tokens : Request(t, tok)
  \/ \E t \in Workers, n \in VarNames : GetBegin(t, n)
  \/ \E t \in Workers : GetHit(t)
  \/ \E t \in Workers : GetMiss(t)
  \/ \E t \in Workers : GetReadNone(t)
  \/ \E t \in Workers : GetReadSome(t)
  \/ \E t \in Workers : GetStore(t)
  \/ \E t \in Workers : VarsDone(t)
  \/ \E t \in Workers : AliasesAbsent(t)
  \/ \E t \in Workers : Respond(t)
  \/ \E t \in Workers : Finish(t)

InitStale ==
  /\ InitConc
  /\ alias_file = None

SpecStale == InitStale /\ [][StaleNext]_vars

\* Two request threads and the watcher contend for the lock while an external
\* writer empties a variable file or removes the alias file, up to ConcFsOps
\* times; every request has the valid token and the clock stands still.
LiveNext ==
  \/ \E n \in VarNames : EditFile(n, Blank, ConcFsOps)
  \/ DeleteAlias(ConcFsOps)
  \/ \E p \in events : OnModified(p)
  \/ \E t \in Threads : Request(t, SECRET_TOKEN)
  \/ \E t \in Threads, n \in VarNames : GetBegin(t, n)
  \/ \E t \in Threads : GetHit(t)
  \/ \E t \in Threads : GetMiss(t)
  \/ \E t \in Threads : GetReadNone(t)
  \/ \E t \in Threads : GetReadSome(t)
  \/ \E t \in Threads : GetStore(t)
  \/ \E t \in Threads : VarsDone(t)
  \/ \E t \in Threads : AliasesAbsent(t)
  \/ \E t \in Threads : AliasesExist(t)
  \/ \E t \in Threads : AliasHit(t)
  \/ \E t \in Threads : AliasMiss(t)
  \/ \E t \in Threads : AliasReadFail(t)
  \/ \E t \in Threads : AliasRead(t)
  \/ \E t \in Threads : Respond(t)
  \/ \E t \in Threads : Finish(t)

\* A thread blocked in "with _cache_lock" (lines 110, 171) gets the lock.
Acquire(t) == GetHit(t) \/ GetMiss(t) \/ AliasHit(t) \/ AliasMiss(t)

\* A step of a request thread that waits for nothing.
Advance(t) ==
  \/ \E n \in VarNames : GetBegin(t, n)
  \/ GetReadNone(t)
  \/ GetReadSome(t)
  \/ GetStore(t)
  \/ VarsDone(t)
  \/ AliasesAbsent(t)
  \/ AliasesExist(t)
  \/ AliasReadFail(t)
  \/ AliasRead(t)
  \/ Respond(t)
  \/ Finish(t)

\* Fair scheduling: a thread that can run does run, and a thread or a watcher
\* callback that waits for the lock gets it if it is free again and again.
LiveFairness ==
  /\ \A t \in Threads : WF_vars(Advance(t))
  /\ \A t \in Threads : SF_vars(Acquire(t))
  /\ SF_vars(\E p \in events : OnModified(p))

\* The file "A" and the alias file exist when the threads start.
InitLive ==
  /\ InitConc
  /\ alias_file # None

SpecLive == InitLive /\ [][LiveNext]_vars /\ LiveFairness

\* ------------------------------------------------- the export escaping
\* The backtick is written "BACKTICK": a TLA+ string cannot hold one.
EscAlphabet == {"\\", "\"", "$", "BACKTICK", "a"}
EscExample == <<"a", "\"", "b", "\\", "c", "$", "d">>
EscInputs ==
  UNION {[1..k -> EscAlphabet] : k \in 0..MaxLen} \cup {EscExample}

InitEscape ==
  /\ InitServer
  /\ files = [n \in VarNames |-> None]
  /\ alias_file = None
  /\ esc_in \in EscInputs
  /\ esc_out = None
  /\ InitLine

\* Line 398 applied to a value.
EscapeValue ==
  /\ esc_out = None
  /\ esc_out' = Some(escape_value(esc_in))
  /\ UNCHANGED <<fsVars, now, memVars, threadVars, notified, esc_in, aliasLineVars>>

SpecEscape == InitEscape /\ [][EscapeValue]_vars

\* ------------------------------------------------- the alias formatting
AliasAlphabet == {"a", "=", "'", "\"", " "}
\* FOO=bar, FOO="bar", justname and alias X='y', with shorter names.
AliasExamples ==
  { <<"F", "=", "b", "a", "r">>,
    <<"F", "=", "\"", "b", "a", "r", "\"">>,
    <<"j", "u", "s", "t">>,
    <<"a", "l", "i", "a", "s", " ", "X", "=", "'", "y", "'">>,
    <<"a", "l", "i", "a", "s", " ", "a", "=", "a">>,
    <<"a", "l", "i", "a", "s">> }
AliasInputs ==
  UNION {[1..k -> AliasAlphabet] : k \in 0..MaxLen} \cup AliasExamples

InitAlias ==
  /\ InitServer
  /\ files = [n \in VarNames |-> None]
  /\ alias_file = None
  /\ esc_in = <<>>
  /\ esc_out = None
  /\ line_in \in AliasInputs
  /\ line_out = None
  /\ line_again = None

\* Lines 179-206 applied to a file of the one line line_in.
FormatLine ==
  /\ line_out = None
  /\ line_out' = Some(format_aliases(<<line_in>>))
  /\ UNCHANGED <<fsVars, now, memVars, threadVars, notified, esc_in, esc_out,
                 line_in, line_again>>

\* Lines 179-206 applied to a file whose lines are the commands of line_out.
FormatAgain ==
  /\ line_out # None
  /\ line_again = None
  /\ line_again' = Some(format_aliases(line_out[1]))
  /\ UNCHANGED <<fsVars, now, memVars, threadVars, notified, esc_in, esc_out,
                 line_in, line_out>>

AliasNext == FormatLine \/ FormatAgain

SpecAlias == InitAlias /\ [][AliasNext]_vars

\* ------------------------------------------------------------------ claims

\* C1: get_var_value uses the cached list without reading the file exactly
\* when an entry for the name exists whose stored hash equals the hash
\* computed in this call and whose age (call time minus stored timestamp) is
\* below CACHE_TTL; otherwise it goes on to read the file, and a read that
\* yields a non-empty list replaces the stored values, hash and timestamp of
\* the name, all under the same hold of the lock.
C1_Usable(t) ==
  LET n == var_name[t]
  IN /\ n \in DOMAIN values_cache
     /\ n \in DOMAIN file_hashes
     /\ file_hashes[n] = get_file_hash(files[n])
     /\ current_time[t] - cache_timestamps[n] < CACHE_TTL

C1_Step(t) ==
  LET n == var_name[t]
  IN /\ (pc[t] = "wait" /\ pc'[t] # "wait") =>
          IF C1_Usable(t)
            THEN /\ pc'[t] = "vars"
                 /\ path'[t] = "hit"
                 /\ UNCHANGED cacheVars
                 /\ \E v \in Elems(values_cache[n]) :
                      vars_dict'[t] = Append(vars_dict[t], <<n, v>>)
            ELSE /\ pc'[t] = "read"
                 /\ current_hash'[t] = get_file_hash(files[n])
                 /\ UNCHANGED cacheVars
     /\ (pc[t] = "read" /\ pc'[t] = "store") =>
          /\ read_var_file(files[n]) # None
          /\ values'[t] = read_var_file(files[n])
          /\ values_cache'[n] = values'[t][1]
          /\ cache_lock' = t
     /\ (pc[t] = "store" /\ pc'[t] # "store") =>
          /\ cache_lock = t
          /\ values_cache'[n] = values[t][1]
          /\ file_hashes'[n] = current_hash[t]
          /\ cache_timestamps'[n] = current_time[t]
          /\ path'[t] = "refresh"

C1_CacheUse == [][\A t \in Threads : C1_Step(t)]_vars

\* A get has just been served from the cache.
C1_Witness ==
  \E t \in Threads : path[t] = "hit" /\ vars_dict[t] # <<>>

\* C2 (as stated): once a variable's file has been edited and the on_modified
\* callback for the edit has completed, with no further change of the file,
\* the next get_var_value of the variable returns one of the non-empty
\* stripped lines of the new content (and nothing when it has none), whatever
\* the cache held.
C2_Step(t) ==
  LET n == var_name[t]
      r == read_var_file(files[n])
  IN (/\ pc[t] \in {"wait", "read", "store"}
      /\ pc'[t] = "vars"
      /\ n \in DOMAIN notified
      /\ notified[n] = "done") =>
       IF r = None
         THEN vars_dict'[t] = vars_dict[t]
         ELSE \E v \in Elems(r[1]) : vars_dict'[t] = Append(vars_dict[t], <<n, v>>)

C2_Coherence == [][\A t \in Threads : C2_Step(t)]_vars

\* C3 (as stated): a get during which hashing the file fails, or reading it
\* fails, adds nothing for the variable, and load_all_vars goes on to the
\* other names; a failed hash alone is enough to make the variable absent.
C3_Step(t) ==
  LET n == var_name[t]
  IN /\ (pc[t] = "wait" /\ pc'[t] = "vars" /\ get_file_hash(files[n]) = None) =>
          vars_dict'[t] = vars_dict[t]
     /\ (pc[t] = "store" /\ pc'[t] = "vars" /\ current_hash[t] = None) =>
          vars_dict'[t] = vars_dict[t]
     /\ (pc[t] = "read" /\ pc'[t] # "read" /\ read_var_file(files[n]) = None) =>
          /\ pc'[t] = "vars"
          /\ vars_dict'[t] = vars_dict[t]
          /\ pending'[t] = pending[t]

C3_ErrorsAbsent == [][\A t \in Threads : C3_Step(t)]_vars

\* C4 (as stated): when the re-read of get_var_value finds the file missing or
\* without a non-empty line, the name is afterwards in neither the values
\* map nor the hash map.
C4_Step(t) ==
  (pc[t] = "read" /\ pc'[t] = "vars") =>
    /\ var_name[t] \notin DOMAIN values_cache'
    /\ var_name[t] \notin DOMAIN file_hashes'

C4_EntryRemoved == [][\A t \in Threads : C4_Step(t)]_vars

\* C5 (as stated): get_var_value never returns a value out of the cache while
\* the file of the name is missing or has no non-empty line.
C5_Step(t) ==
  (/\ pc[t] = "wait"
   /\ pc'[t] = "vars"
   /\ vars_dict'[t] # vars_dict[t]) =>
    read_var_file(files[var_name[t]]) # None

C5_AbsentWhenMissing == [][\A t \in Threads : C5_Step(t)]_vars

\* C8 (as stated): after on_modified has run for a file of the variables
\* directory, the cache holds neither values nor hash for the variable named
\* by the full file name; after on_modified for the alias file, the alias
\* cache and the alias hash are cleared.
C8_Step(p) ==
  (p \in events /\ events' = events \ {p}) =>
    IF p = AliasPath
      THEN aliases_cache' = None /\ aliases_hash' = None
      ELSE p[2] \notin DOMAIN values_cache' /\ p[2] \notin DOMAIN file_hashes'

C8_Invalidated ==
  [][\A p \in {VarPath(n) : n \in VarNames} \cup {AliasPath} : C8_Step(p)]_vars

\* C6: the cache is read and written only under _cache_lock: a thread between
\* its hash computation and its cache update holds the lock, the lock is held
\* by nobody else, so at most one thread is inside a read-or-refresh, and
\* whenever the lock is free every entry's values, hash and timestamp are
\* those one refresh stored.
C6_Critical == {"read", "store", "aread"}

C6_LockDiscipline ==
  /\ \A t \in Threads : pc[t] \in C6_Critical => cache_lock = t
  /\ cache_lock # Free => cache_lock \in Threads /\ pc[cache_lock] \in C6_Critical
  /\ Cardinality({t \in Threads : pc[t] \in C6_Critical}) <= 1
  /\ cache_lock = Free =>
       \A n \in DOMAIN values_cache \cap DOMAIN file_hashes :
         /\ n \in DOMAIN cache_timestamps
         /\ n \in DOMAIN refreshed
         /\ refreshed[n] = <<values_cache[n], file_hashes[n], cache_timestamps[n]>>

\* One thread is inside a refresh, having stored the values but not yet the
\* hash, while the other waits for the lock.
C6_Witness ==
  \E t, u \in Threads :
    /\ t # u
    /\ pc[t] = "store"
    /\ cache_lock = t
    /\ pc[u] \in {"wait", "awaitA"}

\* C7: a request whose token is not the secret is answered with status 200
\* and a body that is exactly the one warning line: no export line, no alias
\* line, whatever the directory, the alias file and the cache hold.
C7_InvalidToken ==
  \A t \in Threads :
    (response[t] # None /\ response[t][1].token # SECRET_TOKEN) =>
      /\ response[t][1].status = 200
      /\ response[t][1].body = <<warning_message>>
      /\ \A i \in 1..Len(response[t][1].body) :
           /\ ~StartsWith(response[t][1].body[i], ExportKw)
           /\ ~StartsWith(response[t][1].body[i], AliasKw)

\* An invalid token has been answered while a variable file and the alias
\* file exist and the cache holds an entry.
C7_Witness ==
  \E t \in Threads :
    /\ response[t] # None
    /\ response[t][1].token # SECRET_TOKEN
    /\ \E n \in VarNames : files[n] # None /\ n \in DOMAIN values_cache
    /\ alias_file # None
    /\ aliases_cache # None

\* C9: the body of a valid request is one export line per variable for which
\* get_var_value returned a value, in ascending order of name, followed by
\* the alias lines in the order load_aliases gave them; no alias line comes
\* before an export line.
C9_BodyOK(body, items, als) ==
  LET k == Len(items)
  IN /\ Len(body) = k + Len(als)
     /\ \E perm \in [1..k -> 1..k] :
          /\ \A i, j \in 1..k : i # j => perm[i] # perm[j]
          /\ \A i \in 1..k :
               body[i] = ExportKw \o items[perm[i]][1] \o <<"=", "\"">>
                           \o escape_value(items[perm[i]][2]) \o <<"\"">>
          /\ \A i, j \in 1..k : i < j => StrLess(items[perm[i]][1], items[perm[j]][1])
     /\ \A i \in 1..Len(als) : body[k + i] = als[i]
     /\ \A i \in 1..Len(body) :
          IF i <= k THEN StartsWith(body[i], ExportKw) /\ ~StartsWith(body[i], AliasKw)
          ELSE StartsWith(body[i], AliasKw)

C9_ResponseBody ==
  \A t \in Threads :
    (pc[t] = "sent" /\ response[t][1].token = SECRET_TOKEN) =>
      /\ response[t][1].status = 200
      /\ C9_BodyOK(response[t][1].body, vars_dict[t], aliases[t])

\* A response with two export lines, whose variables were read in descending
\* order of name, and with alias lines.
C9_Witness ==
  \E t \in Threads :
    /\ pc[t] = "sent"
    /\ response[t][1].token = SECRET_TOKEN
    /\ Len(vars_dict[t]) = 2
    /\ vars_dict[t][1][1] = NameAt
    /\ Len(aliases[t]) = 2

\* C10: the three chained replacements give what one left-to-right pass over
\* the original value gives that doubles each backslash, puts a backslash
\* before each double quote and each dollar sign, and keeps every other
\* character, the backtick included; a"b\c$d becomes a\"b\\c\$d.
C10_Map(c) ==
  IF c \in {"\\", "\"", "$"} THEN <<"\\", c>> ELSE <<c>>

RECURSIVE C10_OnePass(_)
C10_OnePass(s) ==
  IF s = <<>> THEN <<>> ELSE C10_Map(Head(s)) \o C10_OnePass(Tail(s))

EscExampleOut ==
  <<"a", "\\", "\"", "b", "\\", "\\", "c", "\\", "$", "d">>

C10_SinglePass ==
  esc_out # None =>
    /\ esc_out[1] = C10_OnePass(esc_in)
    /\ esc_in = EscExample => esc_out[1] = EscExampleOut

\* The example of the claim has been escaped, and so has a value holding a
\* backtick.
C10_Witness ==
  /\ esc_in = EscExample
  /\ esc_out = Some(EscExampleOut)

\* C11 (as stated): a non-empty line that does not start with the alias
\* keyword becomes alias NAME=VALUE when it holds an '=' (split at the first
\* one), the value kept as it is exactly when it is wrapped in a pair of
\* single quotes or a pair of double quotes, an opening and a distinct closing
\* quote character, and put in single quotes otherwise; without an '=' it
\* becomes alias NAME.
C11_Wrapped(v) ==
  /\ Len(v) >= 2
  /\ v[1] \in {"'", "\""}
  /\ v[Len(v)] = v[1]

C11_Expected(l) ==
  IF Find(l, "=") > 0
    THEN LET i == Find(l, "=")
             n == Strip(SubSeq(l, 1, i - 1))
             v == Strip(SubSeq(l, i + 1, Len(l)))
         IN IF C11_Wrapped(v)
              THEN AliasKw \o n \o <<"=">> \o v
              ELSE AliasKw \o n \o <<"=", "'">> \o v \o <<"'">>
    ELSE AliasKw \o l

C11_Formatted ==
  (/\ line_out # None
   /\ Strip(line_in) # <<>>
   /\ ~StartsWith(Strip(line_in), AliasKw)) =>
    line_out[1] = <<C11_Expected(Strip(line_in))>>

\* C12: formatting is idempotent: the command made of a non-empty line, given
\* to the formatter as a line of its own, comes back unchanged.
C12_Idempotent ==
  (line_again # None /\ Strip(line_in) # <<>>) =>
    /\ Len(line_out[1]) = 1
    /\ line_again[1] = line_out[1]

\* F=bar has been formatted twice and is alias F='bar' both times.
C12_Witness ==
  /\ line_in = <<"F", "=", "b", "a", "r">>
  /\ line_again = Some(<< AliasKw \o <<"F", "=", "'", "b", "a", "r", "'">> >>)

\* C13: a value get_var_value returns is an element of the list it used (the
\* cached list on a hit, the list just read on a refresh), the only element
\* when the list has one; and whenever it is about to select, each element of
\* the list is a possible result, whatever earlier calls returned.
C13_Returned(t, n, list) ==
  \E v \in Elems(list) :
    /\ vars_dict'[t] = Append(vars_dict[t], <<n, v>>)
    /\ Len(list) = 1 => v = list[1]

C13_Possible(t, n, list, A) ==
  \A v \in Elems(list) :
    ENABLED (A /\ vars_dict'[t] = Append(vars_dict[t], <<n, v>>))

C13_Step(t) ==
  LET n == var_name[t]
  IN /\ (pc[t] = "wait" /\ pc'[t] = "vars") =>
          C13_Returned(t, n, values_cache[n])
     /\ (pc[t] = "store" /\ pc'[t] = "vars") =>
          C13_Returned(t, n, values[t][1])
     /\ (pc[t] = "wait" /\ cache_lock = Free /\ C1_Usable(t)) =>
          C13_Possible(t, n, values_cache[n], GetHit(t))
     /\ pc[t] = "store" =>
          C13_Possible(t, n, values[t][1], GetStore(t))

C14_Step(t) ==
  /\ (pc[t] = "awaitA" /\ pc'[t] # "awaitA") =>
       IF aliases_cache # None /\ aliases_hash = get_file_hash(alias_file)
         THEN /\ pc'[t] = "respond"
              /\ aliases'[t] = aliases_cache[1]
              /\ UNCHANGED aliasCacheVars
         ELSE pc'[t] = "aread"
  /\ (pc[t] \in {"awaitA", "aread"} /\ pc'[t] = "respond" /\ alias_file # None) =>
       aliases'[t] = format_aliases(alias_file[1])
  /\ (pc[t] = "aliases" /\ pc'[t] # "aliases" /\ alias_file = None) =>
       /\ pc'[t] = "respond"
       /\ aliases'[t] = <<>>

C14_AliasCache == [][\A t \in Threads : C14_Step(t)]_vars

\* C15: staleness happens and is bounded.  A get that answers out of the
\* cache with a value that is not a line of the file's content does so only
\* with an entry younger than CACHE_TTL whose stored hash is the hash the file
\* has now; and such an answer is reachable (C15_Witness): the file has been
\* edited, the on_modified of the edit has not run, and the get returns a
\* line of an older content.
C15_Lines(n) ==
  IF read_var_file(files[n]) = None THEN {} ELSE Elems(read_var_file(files[n])[1])

C15_Step(t) ==
  LET n == var_name[t]
  IN (/\ pc[t] = "wait"
      /\ pc'[t] = "vars"
      /\ \E v \in Elems(values_cache[n]) \ C15_Lines(n) :
           vars_dict'[t] = Append(vars_dict[t], <<n, v>>)) =>
       /\ n \in DOMAIN cache_timestamps
       /\ current_time[t] - cache_timestamps[n] < CACHE_TTL
       /\ file_hashes[n] = get_file_hash(files[n])

C15_BoundedStaleness == [][\A t \in Threads : C15_Step(t)]_vars

\* The get has just answered "a" out of the cache although the file, edited
\* since and not yet notified, holds other lines; the entry carries the hash
\* of the file's present content.
C15_Witness ==
  \E t \in Threads :
    /\ path[t] = "hit"
    /\ vars_dict[t] = << <<NameA, <<"a">>>> >>
    /\ NameA \in DOMAIN values_cache
    /\ values_cache[NameA] = << <<"a">> >>
    /\ file_hashes[NameA] = get_file_hash(files[NameA])
    /\ <<"a">> \notin C15_Lines(NameA)
    /\ VarPath(NameA) \in events
    /\ NameA \in DOMAIN notified
    /\ notified[NameA] = "edited"
    /\ now - cache_timestamps[NameA] < CACHE_TTL

\* C16 (as stated): whenever the lock is free, the hash stored for a name is
\* the hash of the content whose non-empty stripped lines are the list stored
\* for the name, also when a writer changes the file between the hash and the
\* read of a get.
C16_HashOfValues ==
  cache_lock = Free =>
    \A n \in DOMAIN values_cache \cap DOMAIN file_hashes :
      \E c \in Contents :
        /\ file_hashes[n] = get_file_hash(Some(c))
        /\ read_var_file(Some(c)) = Some(values_cache[n])

\* C17: under fair scheduling every request that has started is answered,
\* every thread that holds the lock frees it, and every pending on_modified
\* callback runs.
C17_LockLiveness ==
  /\ \A t \in Threads : (pc[t] # "idle") ~> (pc[t] = "idle")
  /\ \A t \in Threads : (cache_lock = t) ~> (cache_lock = Free)
  /\ \A n \in VarNames : (VarPath(n) \in events) ~> (VarPath(n) \notin events)

\* One thread holds the lock on the way to the early return of None while
\* the other thread waits for the lock and a callback is pending.
C17_Witness ==
  \E t, u \in Threads :
    /\ t # u
    /\ pc[t] = "read"
    /\ cache_lock = t
    /\ read_var_file(files[var_name[t]]) = None
    /\ pc[u] \in {"wait", "awaitA"}
    /\ events # {}

\* C18 (as stated): a get that had to wait for the lock reuses a cached list
\* only if, when it decides, less than CACHE_TTL has passed since the list was
\* read from the file; and a refresh never replaces a stored timestamp by an
\* earlier one.
C18_Step(t) ==
  LET n == var_name[t]
  IN /\ (pc[t] = "wait" /\ pc'[t] = "vars" /\ path[t] = "blocked") =>
          /\ n \in DOMAIN captured
          /\ now - captured[n] < CACHE_TTL
     /\ (pc[t] = "store" /\ pc'[t] = "vars" /\ n \in DOMAIN cache_timestamps) =>
          cache_timestamps'[n] >= cache_timestamps[n]

C18_TrueAge == [][\A t \in Threads : C18_Step(t)]_vars

\* C19: a request with an invalid token changes nothing of the cache (values,
\* hashes, timestamps, alias cache, alias hash) and reads no file: its thread
\* goes from the request straight to the response, never through
\* load_all_vars, get_var_value or load_aliases.
C19_Step(t) ==
  /\ token[t] # SECRET_TOKEN =>
       /\ pc[t] = "sent"
       /\ current_hash[t] = None
       /\ values[t] = None
       /\ vars_dict[t] = <<>>
       /\ aliases[t] = <<>>
  /\ (pc[t] = "idle" /\ pc'[t] # "idle" /\ token'[t] # SECRET_TOKEN) =>
       /\ pc'[t] = "sent"
       /\ UNCHANGED <<cacheVars, aliasCacheVars, cache_lock, fsVars>>
  /\ (pc[t] = "sent" /\ pc'[t] # "sent" /\ token[t] # SECRET_TOKEN) =>
       /\ pc'[t] = "idle"
       /\ UNCHANGED <<cacheVars, aliasCacheVars, cache_lock, fsVars>>

C19_InvalidFrame == [][\A t \in Threads : C19_Step(t)]_vars

\* A request with a wrong token has been answered while the cache holds a
\* variable and the alias list and an on_modified callback is pending.
C19_Witness ==
  \E t \in Threads :
    /\ pc[t] = "sent"
    /\ token[t] # SECRET_TOKEN
    /\ values_cache # EmptyMap
    /\ aliases_cache # None
    /\ events # {}

\* C20: whenever the lock is free, the values map and the hash map have the
\* same keys, every one of them is a key of the timestamp map, and every
\* stored list has at least one element.
C20_KeySets ==
  cache_lock = Free =>
    /\ DOMAIN values_cache = DOMAIN file_hashes
    /\ DOMAIN values_cache \subseteq DOMAIN cache_timestamps
    /\ \A n \in DOMAIN values_cache : Len(values_cache[n]) >= 1

\* The lock is free after a get has failed on an emptied file and the watcher
\* has invalidated an entry that a get had stored: its timestamp is kept, its
\* values and hash are gone.
C20_Witness ==
  /\ cache_lock = Free
  /\ \E n \in DOMAIN cache_timestamps : n \notin DOMAIN values_cache
  /\ \E t \in Threads : path[t] = "absent"

====
